---- MODULE Spec2Model ----
(***************************************************************************)
(* seqproc: the geometry-string parser (chumsky combinators, src/src/lib.rs *)
(* parser) and the segment compiler (ReadDescription::build_pipeline and    *)
(* its process_* helpers), which turns each read description into an        *)
(* ordered chain of antisequence operations.                                *)
(*                                                                          *)
(* Strings are sequences of one-character strings, so that format!,         *)
(* str::contains, text::int and usize parsing are computed, not assumed.    *)
(* usize is modelled with UsizeBits bits: values 0 .. UsizeMax; an          *)
(* addition that leaves that range panics in a debug build and wraps in a   *)
(* release build.                                                           *)
(***************************************************************************)
EXTENDS Integers, Sequences, FiniteSets

VARIABLES entry, profile, geom, pc, descs, which, label, rest, pipeline, emitted, abort

vars == <<entry, profile, geom, pc, descs, which, label, rest, pipeline, emitted, abort>>

(***************************************************************************)
(* Bounds of the model.                                                     *)
(***************************************************************************)
\* width of usize in the model (the program's is the target's pointer width)
UsizeBits == 3
\* most bounded segments written before the trailing segment of a generated read
MaxBounded == 2

RECURSIVE Pow2(_)
Pow2(n) == IF n = 0 THEN 1 ELSE 2 * Pow2(n - 1)

UsizeMax == Pow2(UsizeBits) - 1

(***************************************************************************)
(* Characters and strings.                                                  *)
(***************************************************************************)
Digits == <<"0", "1", "2", "3", "4", "5", "6", "7", "8", "9">>

DigitChars == {Digits[k] : k \in 1..10}

DigitVal(c) == (CHOOSE k \in 1..10 : Digits[k] = c) - 1

Letters == {"b", "u", "r", "x", "f", "A", "T", "G", "C", "X", "a", "q"}

\* the character at 1-based position i, "" past the end of the input
At(s, i) == IF i >= 1 /\ i <= Len(s) THEN s[i] ELSE ""

\* str::contains(char)
Contains(s, c) == \E i \in 1..Len(s) : s[i] = c

\* usize's Display, as format!("{}", n) prints it
RECURSIVE to_string(_)
to_string(n) == IF n < 10 THEN <<Digits[n + 1]>> ELSE to_string(n \div 10) \o <<Digits[(n % 10) + 1]>>

\* str::parse::<usize>: the value, or -1 when it does not fit in usize
RECURSIVE ParseFrom(_, _, _)
ParseFrom(s, i, acc) ==
    IF i > Len(s) THEN acc
    ELSE LET nxt == acc * 10 + DigitVal(s[i])
         IN IF nxt > UsizeMax THEN -1 ELSE ParseFrom(s, i + 1, nxt)

ParseUsize(s) == ParseFrom(s, 1, 0)

\* [&str]::join(sep)
RECURSIVE Join(_, _)
Join(parts, sep) ==
    IF Len(parts) = 0 THEN <<>>
    ELSE IF Len(parts) = 1 THEN parts[1]
    ELSE parts[1] \o sep \o Join(Tail(parts), sep)

(***************************************************************************)
(* The AST (SegmentData, Range, SegmentType, Segment, BoundedSegment,       *)
(* SegmentComposite, ReadDescription).                                      *)
(***************************************************************************)
SegmentTypes == {"Barcode", "UMI", "Sequence", "Read", "Discard"}

Num(n) == [tag |-> "Num", n |-> n]

LabelData(s) == [tag |-> "Label", s |-> s]

SequenceData(s) == [tag |-> "Sequence", s |-> s]

Range(from, to) == [from |-> from, to |-> to]

FixedLength(ty, d) == [tag |-> "FixedLength", ty |-> ty, d |-> d]

FixedSequence(ty, d) == [tag |-> "FixedSequence", ty |-> ty, d |-> d]

Ranged(ty, r) == [tag |-> "Ranged", ty |-> ty, r |-> r]

Unbounded(ty) == [tag |-> "Unbounded", ty |-> ty]

Fixed(seg) == [tag |-> "Fixed", seg |-> seg]

VariableLenToSequence(var, seq) == [tag |-> "VariableLenToSequence", var |-> var, seq |-> seq]

None == [tag |-> "None"]

Some(seg) == [tag |-> "Some", seg |-> seg]

BoundedToMaybeRangedOrUnbounded(bs, opt) ==
    [tag |-> "BoundedToMaybeRangedOrUnbounded", bounded |-> bs, variable |-> opt]

VariableLen(seg) == [tag |-> "VariableLen", seg |-> seg]

ReadDescription(num, description) == [num |-> num, description |-> description]

\* SegmentType::new
SegmentType_new(c) ==
    CASE c = "b" -> "Barcode"
      [] c = "u" -> "UMI"
      [] c = "x" -> "Discard"
      [] c = "r" -> "Read"
      [] c = "f" -> "Sequence"
      [] OTHER -> "panic"

\* Segment::new_ranged
new_ranged(c, from, to) ==
    IF from.tag = "Num" /\ to.tag = "Num"
    THEN Ranged(SegmentType_new(c), Range(from.n, to.n))
    ELSE [tag |-> "panic"]

(***************************************************************************)
(* The parser.  A parser applied at position i of s gives                   *)
(*   [k |-> "ok", pos |-> next position, v |-> output],                     *)
(*   [k |-> "err"]   (the combinator failed; the caller may try another),   *)
(*   [k |-> "panic"] (a map closure panicked; nothing catches it).          *)
(* or / choice take the first alternative that succeeds, repeated and       *)
(* or_not stop at the first failure and give back the input it read.        *)
(***************************************************************************)
Ok(pos, v) == [k |-> "ok", pos |-> pos, v |-> v]

Err == [k |-> "err"]

Panic == [k |-> "panic"]

\* F applied to the value of v, v evaluated once
Force(v, F(_)) == CHOOSE out \in {F(x) : x \in {v}} : TRUE

\* a.then(..): what follows a runs on a's output; a failure or a panic of a is the result
Then(a, F(_)) == Force(a, LAMBDA r : IF r.k # "ok" THEN r ELSE F(r))

\* a.or(b): b is tried, from the same position, only when a failed
Or(a, b) == Force(a, LAMBDA r : IF r.k = "err" THEN b ELSE r)

\* a.or_not(): a failure of a is None, with no input read
OrNot(a, i) == Force(a, LAMBDA r : IF r.k = "err" THEN Ok(i, None) ELSE r)

just(c, s, i) == IF At(s, i) = c THEN Ok(i + 1, c) ELSE Err

one_of(cs, s, i) == IF At(s, i) \in cs THEN Ok(i + 1, At(s, i)) ELSE Err

\* the position after the longest run of characters of cs that starts at i
RECURSIVE RunEnd(_, _, _)
RunEnd(cs, s, i) == IF At(s, i) \in cs THEN RunEnd(cs, s, i + 1) ELSE i

IdentStart == Letters \cup {"_"}

IdentCont == Letters \cup DigitChars \cup {"_"}

\* text::ident().repeated(): identifiers back to back (at most one can match,
\* since an identifier takes every identifier character that follows it)
ident_repeated(s, i) ==
    IF At(s, i) \in IdentStart
    THEN Force(RunEnd(IdentCont, s, i + 1), LAMBDA e : Ok(e, SubSeq(s, i, e - 1)))
    ELSE Ok(i, <<>>)

\* ident: text::ident().repeated().collect().map(Label).delimited_by('<', '>')
ident(s, i) ==
    Then(just("<", s, i), LAMBDA o :
    Then(ident_repeated(s, o.pos), LAMBDA n :
    Then(just(">", s, n.pos), LAMBDA c :
    Ok(c.pos, LabelData(n.v)))))

\* int: text::int(10).map(|s| SegmentData::Num(s.parse().unwrap()))
int(s, i) ==
    IF At(s, i) \notin DigitChars THEN Err
    ELSE Force(IF At(s, i) = "0" THEN i + 1 ELSE RunEnd(DigitChars, s, i + 1), LAMBDA e :
         Force(ParseUsize(SubSeq(s, i, e - 1)), LAMBDA n :
         IF n < 0 THEN Panic ELSE Ok(e, Num(n))))

\* nucleotide_sequence: one_of("ATGC").repeated().collect().map(Sequence)
nucleotide_sequence(s, i) ==
    Force(RunEnd({"A", "T", "G", "C"}, s, i), LAMBDA e : Ok(e, SequenceData(SubSeq(s, i, e - 1))))

TypeChars == {"b", "u", "r", "x"}

\* fixed: one_of("burx") ident? '[' int ']'
fixed(s, i) ==
    Then(one_of(TypeChars, s, i), LAMBDA t :
    Then(OrNot(ident(s, t.pos), t.pos), LAMBDA l :
    Then(just("[", s, l.pos), LAMBDA o :
    Then(int(s, o.pos), LAMBDA n :
    Then(just("]", s, n.pos), LAMBDA c :
    Ok(c.pos, FixedLength(SegmentType_new(t.v), n.v)))))))

\* fixed_sequence: 'f' ident? '[' nucleotide_sequence ']'
fixed_sequence(s, i) ==
    Then(just("f", s, i), LAMBDA t :
    Then(OrNot(ident(s, t.pos), t.pos), LAMBDA l :
    Then(just("[", s, l.pos), LAMBDA o :
    Then(nucleotide_sequence(s, o.pos), LAMBDA n :
    Then(just("]", s, n.pos), LAMBDA c :
    Ok(c.pos, FixedSequence("Sequence", n.v)))))))

\* ranged: one_of("burx") ident? '[' int '-' int ']'
ranged(s, i) ==
    Then(one_of(TypeChars, s, i), LAMBDA t :
    Then(OrNot(ident(s, t.pos), t.pos), LAMBDA l :
    Then(just("[", s, l.pos), LAMBDA o :
    Then(int(s, o.pos), LAMBDA a :
    Then(just("-", s, a.pos), LAMBDA d :
    Then(int(s, d.pos), LAMBDA b :
    Then(just("]", s, b.pos), LAMBDA c :
    Ok(c.pos, new_ranged(t.v, a.v, b.v)))))))))

\* unbounded: one_of("burx") ident? ':'
unbounded(s, i) ==
    Then(one_of(TypeChars, s, i), LAMBDA t :
    Then(OrNot(ident(s, t.pos), t.pos), LAMBDA l :
    Then(just(":", s, l.pos), LAMBDA c :
    Ok(c.pos, Unbounded(SegmentType_new(t.v))))))

\* .padded(): whitespace before and after is skipped
SkipWhitespace(s, i) == RunEnd({" "}, s, i)

\* bounded: choice((fixed.or(fixed_sequence).map(Fixed),
\*                  ranged.or(unbounded).then(fixed_sequence).map(VariableLenToSequence))).padded()
bounded(s, i) ==
    Force(SkipWhitespace(s, i), LAMBDA p :
    Then(Or(Then(Or(fixed(s, p), fixed_sequence(s, p)), LAMBDA f : Ok(f.pos, Fixed(f.v))),
            Then(Or(ranged(s, p), unbounded(s, p)), LAMBDA v :
            Then(fixed_sequence(s, v.pos), LAMBDA f :
            Ok(f.pos, VariableLenToSequence(v.v, f.v))))),
         LAMBDA r : Ok(SkipWhitespace(s, r.pos), r.v)))

\* bounded.repeated(): as many as parse, the input of a failed one given back
RECURSIVE bounded_repeated(_, _, _)
bounded_repeated(s, i, acc) ==
    Force(bounded(s, i), LAMBDA r :
    IF r.k = "panic" THEN Panic
    ELSE IF r.k = "err" THEN Ok(i, acc)
    ELSE Force(Append(acc, r.v), LAMBDA acc2 : bounded_repeated(s, r.pos, acc2)))

\* composite_read: choice((bounded.repeated().at_least(1).then(choice((ranged, unbounded)).or_not()),
\*                        unbounded.or(ranged)))
composite_read(s, i) ==
    Or(Then(bounded_repeated(s, i, <<>>), LAMBDA bs :
            IF Len(bs.v) < 1 THEN Err
            ELSE Then(OrNot(Or(ranged(s, bs.pos), unbounded(s, bs.pos)), bs.pos), LAMBDA t :
                 Ok(t.pos, BoundedToMaybeRangedOrUnbounded(
                               bs.v, IF t.v = None THEN None ELSE Some(t.v))))),
       Then(Or(unbounded(s, i), ranged(s, i)), LAMBDA t : Ok(t.pos, VariableLen(t.v))))

\* one read description: int.then(composite_read.delimited_by('{', '}'))
read_description(s, i) ==
    Then(int(s, i), LAMBDA n :
    Then(just("{", s, n.pos), LAMBDA o :
    Then(composite_read(s, o.pos), LAMBDA c :
    Then(just("}", s, c.pos), LAMBDA e :
    Ok(e.pos, ReadDescription(n.v, c.v))))))

\* how many read descriptions .repeated().exactly(2) takes: no fewer, no more
ExactlyN == 2

\* read_description.repeated().exactly(2): stops after the second
RECURSIVE read_description_repeated(_, _, _)
read_description_repeated(s, i, acc) ==
    IF Len(acc) = ExactlyN THEN Ok(i, acc)
    ELSE Then(read_description(s, i), LAMBDA r :
         Force(Append(acc, r.v), LAMBDA acc2 : read_description_repeated(s, r.pos, acc2)))

\* end() left out: whatever follows the second read description is accepted
end_left_out(s, i) == Ok(i, <<>>)

\* end(): nothing is left of the input
end(s, i) == IF i > Len(s) THEN Ok(i, <<>>) ELSE Err

\* parser(): read_description.repeated().exactly(2).then_ignore(end())
parser(s) ==
    Then(read_description_repeated(s, 1, <<>>), LAMBDA r :
    Then(end(s, r.pos), LAMBDA e : Ok(e.pos, r.v)))

(***************************************************************************)
(* The operations handed to the executor.  A pipeline is the sequence of    *)
(* the operations chained so far, in the order they are applied.  A         *)
(* TransformExpr "a -> b, c" is [src |-> a, dst |-> <<b, c>>]; a Label or a  *)
(* SelectorExpr is the text it was built from.                              *)
(***************************************************************************)
Transform(src, dst) == [src |-> src, dst |-> dst]

LeftEnd(n) == [tag |-> "LeftEnd", n |-> n]

\* n..n written for n..=n
RangeInclusive_half_open(a, b) == [kind |-> "Range", start |-> a, end |-> b]

\* n..=n and from..to + 1, and RangeBounds::contains
RangeInclusive(a, b) == [kind |-> "RangeInclusive", start |-> a, end |-> b]

RangeExclusive(a, b) == [kind |-> "Range", start |-> a, end |-> b]

BoundContains(b, n) ==
    IF b.kind = "RangeInclusive" THEN b.start <= n /\ n <= b.end
    ELSE b.start <= n /\ n < b.end

\* LocalAln passed for the standalone anchor
PrefixAln_as_local == [aln |-> "LocalAln", identity |-> 1, overlap |-> 1]

PrefixAln == [aln |-> "PrefixAln", identity |-> 1, overlap |-> 1]

LocalAln == [aln |-> "LocalAln", identity |-> 1, overlap |-> 1]

\* cut
cut(read, cut_transform_expression, cut_index) ==
    Append(read, [op |-> "cut", transform |-> cut_transform_expression, index |-> cut_index])

\* trim
trim(read, labels) == Append(read, [op |-> "trim", labels |-> labels])

\* pad
pad(read, labels, to_length) ==
    Append(read, [op |-> "pad", labels |-> labels, to_length |-> to_length])

\* match_pattern: match_any, retain on the selector, trim of trim_labels
match_pattern(read, transform_expression, selector_expression, pattern, match_type, trim_labels) ==
    trim(read \o << [op |-> "match_any", transform |-> transform_expression,
                     pattern |-> pattern, match_type |-> match_type],
                    [op |-> "retain", selector |-> selector_expression] >>,
         trim_labels)

\* validate_length: length_in_bounds, retain on the selector
validate_length(read, length_transform_expression, selector_expression, bound) ==
    read \o << [op |-> "length_in_bounds", transform |-> length_transform_expression,
                bound |-> bound],
               [op |-> "retain", selector |-> selector_expression] >>

\* the pieces the format! strings are made of
S_l == <<"_", "l">>

S_r == <<"_", "r">>

S_anchor == <<"_", "a", "n", "c", "h", "o", "r">>

S_v_len == <<".", "v", "_", "l", "e", "n">>

S_seq == <<"s", "e", "q">>

\* make_label: format!("{prefix}_{suffix}")
make_label(prefix, suffix) == prefix \o <<"_">> \o suffix

\* cut_sequence: "{starting_label} -> {label}_l, {label}_r"
cut_sequence(pipeline_, starting_label, label_, index) ==
    cut(pipeline_, Transform(starting_label, <<label_ \o S_l, label_ \o S_r>>), index)

\* validate_sequence_length: "{label}_l -> {label}_l.v_len", selector "{label}_l.v_len"
validate_sequence_length(pipeline_, label_, bound) ==
    validate_length(pipeline_,
                    Transform(label_ \o S_l, <<label_ \o S_l \o S_v_len>>),
                    label_ \o S_l \o S_v_len,
                    bound)

\* process_sequence
process_sequence(pipeline_, sequence, starting_label, label_, match_type) ==
    LET transform ==
            IF match_type.aln = "PrefixAln"
            THEN Transform(starting_label, <<label_ \o S_anchor, label_ \o S_r>>)
            ELSE Transform(starting_label, <<label_ \o S_l, label_ \o S_anchor, label_ \o S_r>>)
    IN match_pattern(pipeline_, transform, label_ \o S_anchor,
                     [name |-> S_anchor, patterns |-> <<sequence>>],
                     match_type, <<label_ \o S_anchor>>)

(***************************************************************************)
(* The compiler.  A process_* function gives [k |-> "ok", p |-> pipeline]   *)
(* or [k |-> "panic", why |-> ...]: "invariant" for a panic! on an AST      *)
(* shape, "overflow" for an arithmetic overflow in a debug build.           *)
(***************************************************************************)
Built(p) == [k |-> "ok", p |-> p]

\* the shape panic swallowed: the segment is skipped
Abort_swallowed(why) == Built(<<>>)

Abort(why) == [k |-> "panic", why |-> why]

\* to + 1 on usize: -1 stands for the panic of a build with overflow checks
AddOne(n, prof) ==
    IF n < UsizeMax THEN n + 1
    ELSE IF prof = "debug" THEN -1
    ELSE 0

\* starting_label of process_bounded_segment and process_ending_variable_segment
StartingLabel(label_) == IF ~Contains(label_, "_") THEN label_ \o <<"*">> ELSE label_

\* process_fixed_segment_alone
process_fixed_segment_alone(pipeline_, fixed_segment, starting_label, label_) ==
    IF fixed_segment.tag = "FixedLength"
    THEN IF fixed_segment.d.tag = "Num"
         THEN LET n == fixed_segment.d.n
                  p == validate_sequence_length(
                           cut_sequence(pipeline_, starting_label, label_, LeftEnd(n)),
                           label_, RangeInclusive(n, n))
              IN IF fixed_segment.ty = "Discard"
                 THEN Built(trim(p, <<make_label(label_, <<"l">>)>>))
                 ELSE Built(p)
         ELSE Abort("invariant")
    ELSE IF fixed_segment.tag = "FixedSequence"
    THEN IF fixed_segment.d.tag = "Sequence"
         THEN Built(process_sequence(pipeline_, fixed_segment.d.s, starting_label, label_, PrefixAln))
         ELSE Abort("invariant")
    ELSE Abort("invariant")

\* process_variable_then_fixed
process_variable_then_fixed(pipeline_, seq_segment, variable_segment, starting_label, label_, prof) ==
    IF seq_segment.tag = "FixedSequence" /\ seq_segment.d.tag = "Sequence"
    THEN LET p == process_sequence(pipeline_, seq_segment.d.s, starting_label, label_, LocalAln)
         IN IF variable_segment.tag = "Ranged"
            THEN LET from == variable_segment.r.from
                     to == variable_segment.r.to
                     labels == <<make_label(label_, <<"l">>)>>
                 IN IF AddOne(to, prof) < 0 THEN Abort("overflow")
                    ELSE LET q == validate_sequence_length(p, label_, RangeExclusive(from, AddOne(to, prof)))
                         IN IF variable_segment.ty = "Discard"
                            THEN Built(trim(q, labels))
                            ELSE Built(pad(q, labels, AddOne(to, prof)))
            ELSE IF variable_segment.tag = "Unbounded"
            THEN IF variable_segment.ty = "Discard"
                 THEN Built(trim(p, <<make_label(label_, <<"l">>)>>))
                 ELSE Built(p)
            ELSE Abort("invariant")
    ELSE Abort("invariant")

\* process_bounded_segment
process_bounded_segment(pipeline_, bounded_segment, label_, prof) ==
    IF bounded_segment.tag = "Fixed"
    THEN process_fixed_segment_alone(pipeline_, bounded_segment.seg, StartingLabel(label_), label_)
    ELSE process_variable_then_fixed(pipeline_, bounded_segment.seq, bounded_segment.var,
                                     StartingLabel(label_), label_, prof)

\* process_ending_variable_segment
process_ending_variable_segment(pipeline_, segment, label_, prof) ==
    IF segment.tag = "Unbounded"
    THEN IF segment.ty = "Discard" THEN Built(trim(pipeline_, <<label_>>)) ELSE Built(pipeline_)
    ELSE IF segment.tag = "Ranged"
    THEN IF segment.ty = "Discard" THEN Built(trim(pipeline_, <<label_>>))
         ELSE LET from == segment.r.from
                  to == segment.r.to
              IN IF AddOne(to, prof) < 0 THEN Abort("overflow")
                 ELSE Built(trim(pad(validate_sequence_length(
                                         cut_sequence(pipeline_, StartingLabel(label_), label_, LeftEnd(to)),
                                         label_, RangeExclusive(from, AddOne(to, prof))),
                                     <<make_label(label_, <<"l">>)>>, AddOne(to, prof)),
                                 <<make_label(label_, <<"r">>)>>))
    ELSE Abort("invariant")

(***************************************************************************)
(* The program as a state machine.                                          *)
(*   entry    "main": the binary, given a geometry string;                  *)
(*            "interpret": a caller of the library's pub fn interpret,      *)
(*            given a Vec<ReadDescription> of its own making                *)
(*   profile  the build: "debug" panics on overflow, "release" wraps;       *)
(*            "any" until the run reaches an overflow                       *)
(*   pc       where the run stands                                          *)
(*   descs    the Vec<ReadDescription>                                      *)
(*   which    the read description build_pipeline works on (1: first(),     *)
(*            2: last())                                                    *)
(*   label    build_pipeline's label: Vec<&str>                             *)
(*   rest     the bounded segments the for loop has not reached yet         *)
(*   pipeline the operations chained so far                                 *)
(*   emitted  history: per processed segment, the description it belongs    *)
(*            to, the segment, the label passed and the operations added    *)
(*   abort    why the run panicked, "none" if it did not                    *)
(***************************************************************************)
Profiles == {"debug", "release"}

\* the builds a step that overflows may be running under
ProfilesOf(prof) == IF prof = "any" THEN Profiles ELSE {prof}

\* whether compiling the segment comes out differently in the two builds
\* (a trailing or standalone segment is passed wrapped in Fixed)
BuildMatters(b) ==
    IF b.tag = "Fixed"
    THEN process_ending_variable_segment(<<>>, b.seg, <<>>, "debug")
            # process_ending_variable_segment(<<>>, b.seg, <<>>, "release")
    ELSE process_bounded_segment(<<>>, b, <<>>, "debug")
            # process_bounded_segment(<<>>, b, <<>>, "release")

\* the builds a step on segment b may be running under: the build is left open
\* until a step depends on it
StepProfiles(b) == IF BuildMatters(b) THEN ProfilesOf(profile) ELSE {profile}

\* read_descriptions.first() / .last()
DescAt(k) == IF k = 1 THEN descs[1] ELSE descs[Len(descs)]

Panicked(why) ==
    /\ pc' = "panicked"
    /\ abort' = why
    /\ UNCHANGED <<entry, geom, descs, which, label, rest, pipeline, emitted>>

\* the operations of q that come after those of p
Added(p, q) == SubSeq(q, Len(p) + 1, Len(q))

\* main: parser().parse(geom), then interpret or the printed error
Main ==
    /\ pc = "main"
    /\ \E r \in {parser(geom)} :
       CASE r.k = "ok" ->
                /\ descs' = r.v
                /\ pc' = "interpret"
                /\ UNCHANGED <<entry, geom, which, label, rest, pipeline, emitted, abort>>
         [] r.k = "err" ->
                /\ pc' = "parse_error"
                /\ UNCHANGED <<entry, geom, descs, which, label, rest, pipeline, emitted, abort>>
         [] OTHER -> Panicked("parse")
    /\ UNCHANGED profile

\* interpret: first().unwrap(), last().unwrap(), the paired stream opened
Interpret ==
    /\ pc = "interpret"
    /\ IF Len(descs) = 0
       THEN Panicked("unwrap")
       ELSE /\ pc' = "build_pipeline"
            /\ which' = 1
            /\ pipeline' = <<>>
            /\ UNCHANGED <<entry, geom, descs, label, rest, emitted, abort>>
    /\ UNCHANGED profile

\* build_pipeline up to the match on self.description
BuildPipeline ==
    /\ pc = "build_pipeline"
    /\ LET d == DescAt(which) IN
       IF d.num.tag # "Num"
       THEN Panicked("invariant")
       ELSE /\ label' = <<S_seq \o to_string(d.num.n) \o <<".">> >>
            /\ IF d.description.tag = "BoundedToMaybeRangedOrUnbounded"
               THEN pc' = "bounded_segments" /\ rest' = d.description.bounded
               ELSE pc' = "variable_len" /\ rest' = <<>>
            /\ UNCHANGED <<entry, geom, descs, which, pipeline, emitted, abort>>
    /\ UNCHANGED profile

\* what follows build_pipeline's return
Return ==
    IF which = 1 THEN pc' = "build_pipeline" /\ which' = 2
    ELSE pc' = "collect" /\ UNCHANGED which

Emit(kind, seg, r) ==
    /\ pipeline' = r.p
    /\ emitted' = Append(emitted, [desc |-> which, kind |-> kind, seg |-> seg,
                                   label |-> Join(label, <<"_">>),
                                   ops |-> Added(pipeline, r.p)])

\* label.push("r") forgotten: the frontier does not advance
PushR_forgotten(l) == l

\* label.push("r")
PushR(l) == Append(l, <<"r">>)

\* one turn of the for loop over bounded_segments
ProcessBoundedSegment ==
    /\ pc = "bounded_segments"
    /\ rest # <<>>
    /\ \E prof \in StepProfiles(Head(rest)) :
         \E r \in {process_bounded_segment(pipeline, Head(rest), Join(label, <<"_">>), prof)} :
         /\ profile' = prof
         /\ IF r.k = "panic"
            THEN Panicked(r.why)
            ELSE /\ Emit("bounded", Head(rest), r)
                 /\ label' = PushR(label)
                 /\ rest' = Tail(rest)
                 /\ UNCHANGED <<entry, geom, descs, which, pc, abort>>

\* after the loop, Some(segment): process_ending_variable_segment
ProcessTrailingSegment ==
    /\ pc = "bounded_segments"
    /\ rest = <<>>
    /\ DescAt(which).description.variable.tag = "Some"
    /\ \E seg \in {DescAt(which).description.variable.seg} :
         \E prof \in StepProfiles(Fixed(seg)) :
         \E r \in {process_ending_variable_segment(pipeline, seg, Join(label, <<"_">>), prof)} :
         /\ profile' = prof
         /\ IF r.k = "panic"
            THEN Panicked(r.why)
            ELSE /\ Emit("ending", seg, r)
                 /\ Return
                 /\ UNCHANGED <<entry, geom, descs, label, rest, abort>>

\* after the loop, None: the frontier is trimmed
TrimLeftover ==
    /\ pc = "bounded_segments"
    /\ rest = <<>>
    /\ DescAt(which).description.variable.tag = "None"
    /\ Emit("leftover", None, Built(trim(pipeline, <<Join(label, <<"_">>)>>)))
    /\ Return
    /\ UNCHANGED <<entry, profile, geom, descs, label, rest, abort>>

\* SegmentComposite::VariableLen(segment)
ProcessVariableLen ==
    /\ pc = "variable_len"
    /\ \E seg \in {DescAt(which).description.seg} :
         \E prof \in StepProfiles(Fixed(seg)) :
         \E r \in {process_ending_variable_segment(pipeline, seg, Join(label, <<"_">>), prof)} :
         /\ profile' = prof
         /\ IF r.k = "panic"
            THEN Panicked(r.why)
            ELSE /\ Emit("ending", seg, r)
                 /\ Return
                 /\ UNCHANGED <<entry, geom, descs, label, rest, abort>>

\* collect_fastq2(...).run_with_threads(...): the pipeline goes to the executor
Collect ==
    /\ pc = "collect"
    /\ pc' = "done"
    /\ UNCHANGED <<entry, profile, geom, descs, which, label, rest, pipeline, emitted, abort>>

Next ==
    \/ Main
    \/ Interpret
    \/ BuildPipeline
    \/ ProcessBoundedSegment
    \/ ProcessTrailingSegment
    \/ TrimLeftover
    \/ ProcessVariableLen
    \/ Collect

(***************************************************************************)
(* The inputs.  Geometry strings are written from segment texts; the        *)
(* vectors handed to interpret directly also hold shapes the parser never   *)
(* builds.                                                                  *)
(***************************************************************************)
FixedText(c, n) == <<c, "[">> \o to_string(n) \o <<"]">>

SequenceText(s) == <<"f", "[">> \o s \o <<"]">>

RangedText(c, from, to) == <<c, "[">> \o to_string(from) \o <<"-">> \o to_string(to) \o <<"]">>

UnboundedText(c) == <<c, ":">>

BlockText(mate, body) == mate \o <<"{">> \o body \o <<"}">>

\* from <= to, from > to, and to = usize::MAX
RangePairs == {<<1, 2>>, <<2, 1>>, <<0, UsizeMax>>}

RangedTexts == {RangedText(c, r[1], r[2]) : c \in TypeChars, r \in RangePairs}

UnboundedTexts == {UnboundedText(c) : c \in TypeChars}

\* texts of bounded segments: fixed, fixed_sequence, (ranged | unbounded) fixed_sequence,
\* with a label, with whitespace around
RichUnits ==
    {FixedText(c, n) : c \in TypeChars, n \in {0, 2}}
    \cup {SequenceText(<<"A", "T">>), SequenceText(<<>>),
          <<"f", "<", "a", "_", "1", ">", "[", "G", "]">>,
          <<" ">> \o FixedText("u", 1) \o <<" ">>}
    \cup {v \o SequenceText(<<"A">>) : v \in RangedTexts \cup UnboundedTexts}

BasicUnits == {FixedText("b", 2), SequenceText(<<"A", "T">>), RangedText("x", 1, 2) \o SequenceText(<<"A">>)}

\* texts that are no segment
BadUnits == {<<"q", ":">>, <<"b", "[">>, <<"f", "[", "X", "]">>, <<"b", "[", "1", "-", "]">>,
             FixedText("r", UsizeMax + 1), <<"x", "<", "1", ">", ":">>}

\* up to n units, at most one of them outside BasicUnits
RECURSIVE BasicRuns(_)
BasicRuns(n) ==
    IF n = 0 THEN {<<>>}
    ELSE BasicRuns(n - 1) \cup {u \o b : u \in BasicUnits, b \in BasicRuns(n - 1)}

RECURSIVE UnitRuns(_)
UnitRuns(n) ==
    IF n = 0 THEN {<<>>}
    ELSE UnitRuns(n - 1)
         \cup {u \o b : u \in RichUnits \cup BadUnits, b \in BasicRuns(n - 1)}
         \cup {u \o b : u \in BasicUnits, b \in UnitRuns(n - 1)}

TrailingTexts == {<<>>, <<"r", "<", ">", ":">>, <<"r", ":", " ">>} \cup RangedTexts \cup UnboundedTexts

BasicTrailingTexts == {<<>>, UnboundedText("r"), RangedText("x", 1, 2)}

\* any run of units with a basic trailing text, or basic units with any trailing text
Bodies ==
    {u \o t : u \in UnitRuns(MaxBounded), t \in BasicTrailingTexts}
    \cup {u \o t : u \in BasicRuns(MaxBounded), t \in TrailingTexts}

PlainBlock(mate) == BlockText(mate, <<"r", ":">>)

MateTexts == {<<"1">>, <<"2">>}

\* zero, one, two or three blocks, with or without input left over
Geometries ==
    {BlockText(<<"1">>, b) \o PlainBlock(m) : b \in Bodies, m \in MateTexts}
    \cup {PlainBlock(m) \o BlockText(<<"2">>, b) : b \in Bodies, m \in MateTexts}
    \cup {BlockText(<<"2">>, b) \o BlockText(<<"1">>, b) : b \in {u \o t : u \in BasicUnits, t \in TrailingTexts}}
    \cup {<<>>, PlainBlock(<<"1">>), PlainBlock(<<"1">>) \o PlainBlock(<<"2">>) \o PlainBlock(<<"1">>),
          PlainBlock(<<"1">>) \o PlainBlock(<<"2">>) \o PlainBlock(<<"1">>) \o PlainBlock(<<"2">>),
          PlainBlock(<<"1">>) \o <<" ">> \o PlainBlock(<<"2">>),
          PlainBlock(<<"1">>) \o PlainBlock(<<"2">>) \o <<" ">>,
          PlainBlock(<<"1">>) \o PlainBlock(<<"2">>) \o <<"x">>,
          PlainBlock(<<"1">>) \o PlainBlock(<<"2">>) \o <<"2">>,
          PlainBlock(<<"0", "1">>) \o PlainBlock(<<"2">>),
          PlainBlock(to_string(UsizeMax + 1)) \o PlainBlock(<<"2">>),
          PlainBlock(<<>>) \o PlainBlock(<<"2">>),
          <<"1", "{", "{", "r", ":", "}", "}">> \o PlainBlock(<<"2">>),
          <<"1", "{", "r", ":">> \o PlainBlock(<<"2">>)}

InitCommon ==
    /\ profile = "any"
    /\ which = 0
    /\ label = <<>>
    /\ rest = <<>>
    /\ pipeline = <<>>
    /\ emitted = <<>>
    /\ abort = "none"

InitMain ==
    /\ entry = "main"
    /\ pc = "main"
    /\ geom \in Geometries
    /\ descs = <<>>
    /\ InitCommon

\* segments of each variant, and segments whose payload is of the wrong variant
SegmentReps ==
    {FixedLength("Barcode", Num(2)), FixedLength("Discard", SequenceData(<<"A">>)),
     FixedSequence("Sequence", SequenceData(<<"A", "T">>)), FixedSequence("Barcode", Num(2)),
     Ranged("Discard", Range(1, 2)), Ranged("UMI", Range(0, UsizeMax)),
     Unbounded("Read"), Unbounded("Discard")}

BoundedReps ==
    {Fixed(s) : s \in SegmentReps} \cup {VariableLenToSequence(v, s) : v, s \in SegmentReps}

OptionReps == {None} \cup {Some(s) : s \in SegmentReps}

CompositeReps ==
    {VariableLen(s) : s \in SegmentReps}
    \cup {BoundedToMaybeRangedOrUnbounded(<<b>>, o) : b \in BoundedReps, o \in OptionReps}
    \cup {BoundedToMaybeRangedOrUnbounded(<<Fixed(FixedLength("Sequence", Num(0))), b>>, None) :
             b \in BoundedReps}
    \cup {BoundedToMaybeRangedOrUnbounded(<<>>, o) : o \in OptionReps}

NumReps == {Num(1), LabelData(<<"a">>), SequenceData(<<"A">>)}

PlainDescription(n) == ReadDescription(Num(n), VariableLen(Unbounded("Read")))

DescriptionReps == {ReadDescription(n, c) : n \in NumReps, c \in CompositeReps}

\* the vectors a caller passes to interpret: of two descriptions, and of none, one and three
Vectors ==
    {<<d, PlainDescription(2)>> : d \in DescriptionReps}
    \cup {<<PlainDescription(1), d>> : d \in DescriptionReps}
    \cup {<<>>, <<PlainDescription(1)>>,
          <<PlainDescription(1), ReadDescription(Num(2), VariableLen(FixedLength("Barcode", Num(2)))),
            PlainDescription(2)>>}

InitInterpret ==
    /\ entry = "interpret"
    /\ pc = "interpret"
    /\ geom = <<>>
    /\ descs \in Vectors
    /\ InitCommon

Init == InitMain \/ InitInterpret

Spec == Init /\ [][Next]_vars

(***************************************************************************)
(* Vocabulary of the properties.                                            *)
(***************************************************************************)
\* how often character c stands in s
Count(s, c) == Cardinality({i \in 1..Len(s) : s[i] = c})

\* s holds two brace blocks and ends with the second
TwoBlocks(s) ==
    /\ Count(s, "{") = 2
    /\ Count(s, "}") = 2
    /\ Len(s) > 0
    /\ s[Len(s)] = "}"

ParseSucceeded == entry = "main" /\ pc \notin {"main", "parse_error"} /\ abort # "parse"

ParseFailed == entry = "main" /\ (pc = "parse_error" \/ abort = "parse")

\* the mate index of description k, and the names of its whole read and of its fields
MateOf(k) == DescAt(k).num.n

FieldPrefix(n) == <<"s", "e", "q">> \o to_string(n) \o <<".">>

WholeRead(n) == FieldPrefix(n) \o <<"*">>

Left(l) == l \o <<"_", "l">>

Remainder(l) == l \o <<"_", "r">>

Anchor(l) == l \o <<"_", "a", "n", "c", "h", "o", "r">>

LengthOf(f) == f \o <<".", "v", "_", "l", "e", "n">>

\* entry j of emitted is the first of its read description
FirstOfMate(j) == j = 1 \/ emitted[j - 1].desc # emitted[j].desc

\* the frontier when entry j's segment is compiled: the whole read, or the
\* remainder the segment before it left
FrontierAt(j) ==
    IF FirstOfMate(j) THEN WholeRead(MateOf(emitted[j].desc))
    ELSE Remainder(emitted[j - 1].label)

\* the bound accepts exactly the lengths lo .. hi
AcceptsExactly(b, lo, hi) ==
    \A len \in 0..UsizeMax : BoundContains(b, len) <=> (lo <= len /\ len <= hi)

IsCut(o, src, l, n) ==
    /\ o.op = "cut"
    /\ o.transform = [src |-> src, dst |-> <<Left(l), Remainder(l)>>]
    /\ o.index = [tag |-> "LeftEnd", n |-> n]

IsLengthCheck(o, f, lo, hi) ==
    /\ o.op = "length_in_bounds"
    /\ o.transform = [src |-> f, dst |-> <<LengthOf(f)>>]
    /\ AcceptsExactly(o.bound, lo, hi)

IsRetain(o, sel) == o.op = "retain" /\ o.selector = sel

IsTrim(o, f) == o.op = "trim" /\ o.labels = <<f>>

IsPad(o, f, n) == o.op = "pad" /\ o.labels = <<f>> /\ o.to_length = n

IsMatch(o, mode, src, dst, literal) ==
    /\ o.op = "match_any"
    /\ o.match_type = [aln |-> mode, identity |-> 1, overlap |-> 1]
    /\ o.transform = [src |-> src, dst |-> dst]
    /\ o.pattern.patterns = <<literal>>

\* the field the first operation of entry j reads, <<>> when it has no operation
FirstRead(j) ==
    IF emitted[j].ops = <<>> THEN <<>>
    ELSE IF emitted[j].ops[1].op \in {"trim", "pad"} THEN emitted[j].ops[1].labels[1]
    ELSE emitted[j].ops[1].transform.src

\* entry j + 1, when it belongs to the same read, works on the remainder of entry j
NextUsesRemainder(j) ==
    (j < Len(emitted) /\ emitted[j + 1].desc = emitted[j].desc)
        => /\ emitted[j + 1].label = Remainder(emitted[j].label)
           /\ FirstRead(j + 1) \in {<<>>, Remainder(emitted[j].label)}

IsFixedLengthEntry(e) == e.kind = "bounded" /\ e.seg.tag = "Fixed" /\ e.seg.seg.tag = "FixedLength"

IsStandaloneSequenceEntry(e) ==
    e.kind = "bounded" /\ e.seg.tag = "Fixed" /\ e.seg.seg.tag = "FixedSequence"

IsVariableToSequenceEntry(e) == e.kind = "bounded" /\ e.seg.tag = "VariableLenToSequence"

MatchCount(ops) == Cardinality({i \in 1..Len(ops) : ops[i].op = "match_any"})

(***************************************************************************)
(* C1                                                                       *)
(***************************************************************************)
\* C1: whenever the parser returns a list, the list has exactly two read
\* descriptions and the geometry holds exactly two brace blocks with nothing
\* after the second; so a geometry with zero, one, three or more blocks, or
\* with input left after the second block, never yields a list.
TheoremC1 == ParseSucceeded => (Len(descs) = 2 /\ TwoBlocks(geom))

\* a geometry of three well-formed blocks was refused
WitnessC1 == pc = "parse_error" /\ Count(geom, "{") = 3 /\ Count(geom, "}") = 3

(***************************************************************************)
(* C3                                                                       *)
(***************************************************************************)
FixedLengthCompiled(j) ==
    LET e == emitted[j]
        l == e.label
        n == e.seg.seg.d.n
        discard == e.seg.seg.ty = "Discard"
    IN /\ Len(e.ops) = IF discard THEN 4 ELSE 3
       /\ IsCut(e.ops[1], FrontierAt(j), l, n)
       /\ IsLengthCheck(e.ops[2], Left(l), n, n)
       /\ IsRetain(e.ops[3], LengthOf(Left(l)))
       /\ discard => IsTrim(e.ops[4], Left(l))
       /\ NextUsesRemainder(j)

\* C3: a standalone FixedLength(type, n) compiles to a cut of the frontier at
\* left-end index n into <label>_l and <label>_r, a length check of <label>_l
\* that accepts exactly n, with retain, and a trim of <label>_l if and only if
\* type is Discard; the next segment works on <label>_r.
TheoremC3 == \A j \in 1..Len(emitted) : IsFixedLengthEntry(emitted[j]) => FixedLengthCompiled(j)

\* a Discard and a retained FixedLength, one after the other, and a segment after them
WitnessC3 ==
    /\ Len(emitted) >= 3
    /\ IsFixedLengthEntry(emitted[1]) /\ emitted[1].seg.seg.ty = "Discard"
    /\ IsFixedLengthEntry(emitted[2]) /\ emitted[2].seg.seg.ty # "Discard"
    /\ emitted[3].desc = emitted[1].desc

(***************************************************************************)
(* C4                                                                       *)
(***************************************************************************)
SequenceCompiled(j) ==
    LET e == emitted[j]
        l == e.label
    IN IF IsStandaloneSequenceEntry(e)
       THEN /\ MatchCount(e.ops) = 1
            /\ IsMatch(e.ops[1], "PrefixAln", FrontierAt(j), <<Anchor(l), Remainder(l)>>,
                       e.seg.seg.d.s)
            /\ IsRetain(e.ops[2], Anchor(l))
       ELSE IF IsVariableToSequenceEntry(e)
       THEN /\ MatchCount(e.ops) = 1
            /\ IsMatch(e.ops[1], "LocalAln", FrontierAt(j),
                       <<Left(l), Anchor(l), Remainder(l)>>, e.seg.seq.d.s)
            /\ IsRetain(e.ops[2], Anchor(l))
       ELSE MatchCount(e.ops) = 0

\* C4: a FixedSequence compiles to one match_anchor with identity 1.0 and
\* overlap 1.0 followed by a retain on the anchor field; the mode is Prefix,
\* splitting the frontier into {anchor, remainder}, exactly for a standalone
\* FixedSequence, and Local, splitting it into {left, anchor, remainder},
\* exactly for one that ends a variable region; nothing else emits a match.
TheoremC4 == \A j \in 1..Len(emitted) : SequenceCompiled(j)

\* a standalone anchor and an anchor ending a variable region in one read
WitnessC4 ==
    \E i, j \in 1..Len(emitted) :
        /\ emitted[i].desc = emitted[j].desc
        /\ IsStandaloneSequenceEntry(emitted[i])
        /\ IsVariableToSequenceEntry(emitted[j])

(***************************************************************************)
(* C2                                                                       *)
(***************************************************************************)
IsTerminalRangedEntry(e) == e.kind = "ending" /\ e.seg.tag = "Ranged"

TerminalRangedCompiled(j) ==
    LET e == emitted[j]
        l == e.label
        from == e.seg.r.from
        to == e.seg.r.to
    IN /\ Len(e.ops) = 5
       /\ IsCut(e.ops[1], FrontierAt(j), l, to)
       /\ IsLengthCheck(e.ops[2], Left(l), from, to)
       /\ IsRetain(e.ops[3], LengthOf(Left(l)))
       /\ IF e.seg.ty = "Discard"
          THEN IsTrim(e.ops[4], Left(l))
          ELSE e.ops[4].op = "pad" /\ e.ops[4].labels = <<Left(l)>>
       /\ IsTrim(e.ops[5], Remainder(l))

\* C2: a Ranged(type, [from, to]) in terminal position, whatever its type,
\* compiles to a cut of the frontier at left-end index to, a length check of
\* the cut part against [from, to], a pad (type not Discard) or a trim
\* (Discard) of that part, and a trim of the tail.  Stated for geometries the
\* parser accepted and for to below usize::MAX, where to + 1 does not overflow.
ClaimC2 ==
    \A j \in 1..Len(emitted) :
        (entry = "main" /\ IsTerminalRangedEntry(emitted[j]) /\ emitted[j].seg.r.to < UsizeMax)
            => TerminalRangedCompiled(j)

(***************************************************************************)
(* C5                                                                       *)
(***************************************************************************)
VariableRegionCompiled(j) ==
    LET e == emitted[j]
        l == e.label
        var == e.seg.var
    IN IF var.tag = "Ranged"
       THEN /\ Len(e.ops) = 6
            /\ IsLengthCheck(e.ops[4], Left(l), var.r.from, var.r.to)
            /\ IsRetain(e.ops[5], LengthOf(Left(l)))
            /\ IF var.ty = "Discard"
               THEN IsTrim(e.ops[6], Left(l))
               ELSE IsPad(e.ops[6], Left(l), var.r.to + 1)
       ELSE /\ Len(e.ops) = IF var.ty = "Discard" THEN 4 ELSE 3
            /\ var.ty = "Discard" => IsTrim(e.ops[4], Left(l))

\* C5: for VariableLenToSequence(Ranged(type, [from, to]), anchor), the
\* anchor match (match, retain, trim of the anchor) is followed by a length
\* check of <label>_l that accepts exactly the lengths from .. to, its retain,
\* and then a trim of the region if type is Discard, else a pad of the region
\* to to + 1; for VariableLenToSequence(Unbounded(type), anchor) the anchor
\* match is followed by nothing but a trim of the region when type is Discard.
ClaimC5 ==
    \A j \in 1..Len(emitted) :
        (entry = "main" /\ IsVariableToSequenceEntry(emitted[j])) => VariableRegionCompiled(j)

\* the same, for the ranges whose upper bound is below usize::MAX
ClaimC5BelowMax ==
    \A j \in 1..Len(emitted) :
        (/\ IsVariableToSequenceEntry(emitted[j])
         /\ emitted[j].seg.var.tag = "Ranged" => emitted[j].seg.var.r.to < UsizeMax)
            => VariableRegionCompiled(j)

(***************************************************************************)
(* C6                                                                       *)
(***************************************************************************)
\* the entries of emitted that belong to read description k
EntriesOf(k) == SelectSeq(emitted, LAMBDA e : e.desc = k)

\* the label build_pipeline passes for the i-th segment of mate n
RECURSIVE LabelAt(_, _)
LabelAt(n, i) == IF i = 1 THEN FieldPrefix(n) ELSE Remainder(LabelAt(n, i - 1))

\* the operations of read description k, in the order they are chained
RECURSIVE OpsOf(_)
OpsOf(es) == IF es = <<>> THEN <<>> ELSE Head(es).ops \o OpsOf(Tail(es))

\* read description k has been compiled to its end
Compiled(k) == (k = 1 /\ which = 2) \/ (which = k /\ pc \in {"collect", "done"})

BoundedThenTrailing(k) ==
    LET d == DescAt(k).description
        es == EntriesOf(k)
        nb == Len(d.bounded)
    IN /\ Len(es) <= nb + 1
       /\ Compiled(k) => Len(es) = nb + 1
       /\ \A i \in 1..Len(es) :
            /\ es[i].label = LabelAt(MateOf(k), i)
            /\ i <= nb => /\ es[i].kind = "bounded"
                          /\ es[i].seg = d.bounded[i]
                          /\ es[i].ops[1].transform.src =
                                 IF i = 1 THEN WholeRead(MateOf(k)) ELSE es[i].label
            /\ (i = nb + 1 /\ d.variable.tag = "Some")
                   => es[i].kind = "ending" /\ es[i].seg = d.variable.seg
            /\ (i = nb + 1 /\ d.variable.tag = "None")
                   => /\ es[i].kind = "leftover"
                      /\ es[i].ops = << [op |-> "trim", labels |-> <<Remainder(es[nb].label)>>] >>
                      /\ OpsOf(es)[Len(OpsOf(es))] = es[i].ops[1]

\* C6: in a BoundedToMaybeRangedOrUnbounded composite (of at least one bounded
\* segment, as the parser builds it) the bounded segments are compiled left to
\* right, the i-th on the frontier the one before it left, then the trailing
\* segment exactly once if there is one; with no trailing segment the last
\* operation of the mate is a trim of the current frontier, the _r remainder
\* left by the last bounded segment.
TheoremC6 ==
    \A k \in {1, 2} :
        (/\ pc \notin {"main", "parse_error", "interpret", "panicked"}
         /\ which >= k
         /\ DescAt(k).num.tag = "Num"
         /\ DescAt(k).description.tag = "BoundedToMaybeRangedOrUnbounded"
         /\ Len(DescAt(k).description.bounded) >= 1)
            => BoundedThenTrailing(k)

\* a read of two bounded segments and no trailing segment, compiled to its end
WitnessC6 ==
    /\ entry = "main"
    /\ pc = "done"
    /\ DescAt(1).description.tag = "BoundedToMaybeRangedOrUnbounded"
    /\ Len(DescAt(1).description.bounded) = 2
    /\ DescAt(1).description.variable.tag = "None"
    /\ Len(EntriesOf(1)) = 3

(***************************************************************************)
(* C7                                                                       *)
(***************************************************************************)
\* the Ranged segment entry j compiles, if it has one
RangedOf(e) ==
    IF e.kind = "ending" THEN e.seg
    ELSE IF e.kind = "bounded" /\ e.seg.tag = "VariableLenToSequence" THEN e.seg.var
    ELSE None

HasEmptyRange(e) == RangedOf(e).tag = "Ranged" /\ RangedOf(e).r.from > RangedOf(e).r.to

\* the operations hold a length check of the region that no length passes
ExcludesEveryRecord(e) ==
    \E i \in 1..Len(e.ops) :
        /\ e.ops[i].op = "length_in_bounds"
        /\ e.ops[i].transform.src = Left(e.label)
        /\ \A len \in 0..UsizeMax : ~BoundContains(e.ops[i].bound, len)

\* C7: a Ranged segment with from > to that the parser let through is, wherever
\* it stands and whatever its type, compiled as an empty range: its operations
\* hold a length check of the region that no length satisfies.
ClaimC7 ==
    \A j \in 1..Len(emitted) :
        (entry = "main" /\ HasEmptyRange(emitted[j])) => ExcludesEveryRecord(emitted[j])

(***************************************************************************)
(* C8                                                                       *)
(***************************************************************************)
Range_(f) == {f[i] : i \in 1..Len(f)}

\* the fields an operation reads, validates, pads or trims, and those it creates
Reads(o) ==
    IF o.op \in {"cut", "match_any", "length_in_bounds"} THEN {o.transform.src}
    ELSE IF o.op = "retain" THEN {o.selector}
    ELSE Range_(o.labels)

Creates(o) ==
    IF o.op \in {"cut", "match_any", "length_in_bounds"} THEN Range_(o.transform.dst) ELSE {}

\* operation i of ops works only on the whole read, as long as nothing has
\* split it, or on fields that earlier operations of ops created
Addressable(ops, i, whole) ==
    LET created == UNION {Creates(ops[h]) : h \in 1..(i - 1)}
        split == \E h \in 1..(i - 1) : ops[h].op \in {"cut", "match_any"} /\ ops[h].transform.src = whole
    IN Reads(ops[i]) \subseteq (created \cup (IF split THEN {} ELSE {whole}))

\* C8: in the compilation of a read description every field an operation reads,
\* validates, pads or trims is the whole read seq{mate}.* (while nothing has
\* split the read) or a field an earlier operation of that compilation created,
\* and the segment after a bounded segment works on its _r remainder.
ClaimC8 ==
    entry = "main" =>
        /\ \A k \in {1, 2} :
             \A i \in 1..Len(OpsOf(EntriesOf(k))) :
                 Addressable(OpsOf(EntriesOf(k)), i, WholeRead(MateOf(k)))
        /\ \A j \in 1..Len(emitted) : NextUsesRemainder(j)

\* the same, for the reads that do not consist of a single Discard segment
ClaimC8SplitReads ==
    \A k \in {1, 2} :
        (/\ pc \notin {"main", "parse_error", "interpret", "panicked"}
         /\ which >= k
         /\ DescAt(k).num.tag = "Num"
         /\ ~(DescAt(k).description.tag = "VariableLen" /\ DescAt(k).description.seg.ty = "Discard")
         /\ ~(DescAt(k).description.tag # "VariableLen" /\ DescAt(k).description.bounded = <<>>))
            => \A i \in 1..Len(OpsOf(EntriesOf(k))) :
                   Addressable(OpsOf(EntriesOf(k)), i, WholeRead(MateOf(k)))

(***************************************************************************)
(* C9                                                                       *)
(***************************************************************************)
ShapedFixed(seg) ==
    \/ seg.tag = "FixedLength" /\ seg.d.tag = "Num"
    \/ seg.tag = "FixedSequence" /\ seg.d.tag = "Sequence"

ShapedVariable(seg) == seg.tag \in {"Ranged", "Unbounded"}

ShapedBounded(b) ==
    IF b.tag = "Fixed" THEN ShapedFixed(b.seg)
    ELSE ShapedVariable(b.var) /\ b.seq.tag = "FixedSequence"

ShapedDescription(d) ==
    /\ d.num.tag = "Num"
    /\ IF d.description.tag = "VariableLen" THEN ShapedVariable(d.description.seg)
       ELSE /\ \A i \in 1..Len(d.description.bounded) : ShapedBounded(d.description.bounded[i])
            /\ d.description.variable.tag = "Some" => ShapedVariable(d.description.variable.seg)

\* C9: every read description the parser returns has the shapes the compiler
\* expects, and compiling it never panics on a shape; and a read description
\* outside these shapes is never compiled to its end: the run panics instead.
TheoremC9 ==
    /\ ParseSucceeded =>
          /\ \A i \in 1..Len(descs) : ShapedDescription(descs[i])
          /\ abort # "invariant"
    /\ \A k \in {1, 2} : (Len(descs) > 0 /\ Compiled(k)) => ShapedDescription(DescAt(k))

\* a vector with a misshapen segment after a well-formed one: the run panicked
\* on the shape after the operations of the first segment
WitnessC9 == entry = "interpret" /\ abort = "invariant" /\ Len(emitted) > 0

(***************************************************************************)
(* C10                                                                      *)
(***************************************************************************)
HasPrefix(f, pre) == Len(f) >= Len(pre) /\ SubSeq(f, 1, Len(pre)) = pre

\* C10: for a geometry the parser accepted, the operations of the first read
\* description all come before those of the second, those of the first name
\* only fields seq1.<..> and those of the second only fields seq2.<..>.
ClaimC10 ==
    entry = "main" =>
        /\ \A i, j \in 1..Len(emitted) : i < j => emitted[i].desc <= emitted[j].desc
        /\ \A j \in 1..Len(emitted) :
             \A i \in 1..Len(emitted[j].ops) :
                 \A f \in Reads(emitted[j].ops[i]) \cup Creates(emitted[j].ops[i]) :
                     HasPrefix(f, FieldPrefix(emitted[j].desc))

====
